---- MODULE Spec2Model ----
(***************************************************************************)
(* Inventory consistency logic of the DecoreBack REST backend.             *)
(*                                                                         *)
(* The model follows the request handlers of the TypeScript server (stock: *)
(* getStock, updateStock, addMovement, deleteMovement, getMovements;       *)
(* reports: createReport, updateReport, deleteReport) against a document   *)
(* store, and connectToDatabase of the connection layer.                   *)
(* Every handler is an async function: it runs from one `await` of a store *)
(* call to the next without interruption, and the handlers of other        *)
(* requests may run between two of its store calls.  One action of the     *)
(* model is one store call together with the synchronous code that         *)
(* follows it up to the next store call.                                   *)
(*                                                                         *)
(* Timestamps (new Date().toISOString()) are modelled by the integer value *)
(* of a non-decreasing clock; two stamps taken within the same millisecond *)
(* are equal.  Request bodies are well-typed JSON: quantity is an integer. *)
(***************************************************************************)
EXTENDS Integers, Sequences, FiniteSets, TLC

\* ---------------------------------------------------------------- bounds
\* Largest quantity a request body carries.
MaxQty == 1
\* Largest quantity of a variant in the initial stock record.
MaxInit == 1

\* Calls of connectToDatabase in a behaviour.
MaxCalls == 3

\* const MAX_RETRIES of the connection layer.
MAX_RETRIES == 3

\* The two requests of a behaviour, numbered in the order they arrive.
Procs == {1, 2}

VARIABLES
    stockColl,     \* the stock collection: a sequence of stock documents
    reportsColl,   \* the reports collection: a sequence of report documents
    now,           \* the clock read by new Date()
    pc,            \* pc[p]: the store call request p is waiting on
    req,           \* req[p]: the request (body and params) p carries
    loc,           \* loc[p]: the handler's local constants
    res,           \* res[p]: the response and the quantities around the request
    overlapped,    \* request 2 arrived before request 1 was answered
    client,        \* the connection layer's `client`: a MongoClient or null
    isConnecting,  \* the connection layer's `isConnecting`
    retryCount,    \* the connection layer's `retryCount`
    clients,       \* the MongoClient instances created so far, by number
    call           \* call[c]: the position and outcome of call c

storeVars == <<stockColl, reportsColl, now, pc, req, loc, res, overlapped>>
connVars == <<client, isConnecting, retryCount, clients, call>>
vars == <<stockColl, reportsColl, now, pc, req, loc, res, overlapped,
          client, isConnecting, retryCount, clients, call>>

\* ------------------------------------------------------------ data model
ModelV1 == "ZTE 670 V1"
ModelV9 == "ZTE 670 V9"
\* Model names a client may send; the last one is not a known model.
Models == {ModelV1, ModelV9, "ZTE 670"}
Types == {"entry", "exit", "adjustment"}
\* Free-text observations a client may send.
ObsTexts == {"lote V1", "lote V9"}
\* The key of a report (header.date, req.params.date).
ReportDates == {"2024-05-01"}

NoModel == "(none)"

\* JavaScript's String.prototype.includes.
Includes(s, sub) ==
    \E i \in 1..(Len(s) - Len(sub) + 1) : SubSeq(s, i, i + Len(sub) - 1) = sub

\* JavaScript's `x || 0` on an integer x.
OrZero(x) == IF x = 0 THEN 0 ELSE x

\* Mutant: the clamp left out.
Max0Unclamped(x) == x

\* JavaScript's Math.max(0, x).
Max0(x) == IF x < 0 THEN 0 ELSE x

\* A stock document as PUT /api/stock leaves it: the given quantities.
\* hasItems tells whether the document has an `items` field; a document
\* without a `movements` field is kept as one with no movements, which is
\* how the handlers that read it see it (stock?.movements || []).
StockDoc(q1, q9) ==
    [hasItems |-> TRUE,
     items |-> [v1 |-> [quantity |-> q1, lastUpdate |-> 0],
                v9 |-> [quantity |-> q9, lastUpdate |-> 0]],
     movements |-> <<>>]

\* One operator's line of a report.
OperatorEntry(tested, v9) == [tested |-> tested, v9 |-> v9]

\* A report document.
Report(date, morning, afternoon) ==
    [header |-> [date |-> date], morning |-> morning, afternoon |-> afternoon]

\* The report collections a behaviour may start from.
InitReports ==
    {<<>>,
     <<Report("2024-05-01", <<OperatorEntry(1, 0)>>, <<>>)>>,
     <<Report("2024-05-01", <<OperatorEntry(1, 0)>>, <<OperatorEntry(1, 1)>>)>>}

\* collection.findOne(): the first document of the collection, if any.
HasStock(coll) == coll # <<>>
FindOne(coll) == coll[1]

\* stock.items[modelKey].quantity
QuantityOf(stock, modelKey) ==
    IF modelKey = "v1" THEN stock.items.v1.quantity ELSE stock.items.v9.quantity

\* $set of items.<modelKey>.quantity and items.<modelKey>.lastUpdate.
SetItem(stock, modelKey, q, t) ==
    IF modelKey = "v1"
    THEN [stock EXCEPT !.items.v1 = [quantity |-> q, lastUpdate |-> t]]
    ELSE [stock EXCEPT !.items.v9 = [quantity |-> q, lastUpdate |-> t]]

\* The quantities of the stored record.
Quantities(coll) ==
    IF HasStock(coll)
    THEN [exists |-> TRUE, v1 |-> FindOne(coll).items.v1.quantity,
          v9 |-> FindOne(coll).items.v9.quantity]
    ELSE [exists |-> FALSE, v1 |-> 0, v9 |-> 0]

\* The movements of the stored record.
Ledger(coll) == IF HasStock(coll) THEN FindOne(coll).movements ELSE <<>>

\* ------------------------------------------------------ connection state
\* `client = null`; a MongoClient instance is named by its number in
\* `clients`.
Null == 0

\* The calls of connectToDatabase of a behaviour.
Callers == 1..MaxCalls

\* pc: the await the call is at, "returned" or "threw" once it has ended;
\* entered: the call took the `!client && !isConnecting` branch;
\* attempts: the client.connect() calls it made; retryCountAtEntry: the
\* value of retryCount it found; returned: the client it returned;
\* returnedReady: connect and ping had succeeded on that client when it was
\* returned; clientAfter, isConnectingAfter, retryCountAfter: the module
\* variables when the call ended.
NoCall ==
    [pc |-> "idle", entered |-> FALSE, attempts |-> 0, retryCountAtEntry |-> 0,
     returned |-> Null, returnedReady |-> FALSE,
     clientAfter |-> Null, isConnectingAfter |-> FALSE, retryCountAfter |-> 0]

\* The module variables of the connection layer as they are declared, with
\* no call made yet.
InitConn ==
    /\ client = Null
    /\ isConnecting = FALSE
    /\ retryCount = 0
    /\ clients = <<>>
    /\ call = [c \in Callers |-> NoCall]

\* --------------------------------------------------------- request state
\* The body of a request on /api/stock or /api/reports: the fields of the
\* JSON object that the handlers of the model read or store.  hasItems and
\* hasMovements tell whether the object has an `items` and a `movements`
\* field; v1 and v9 are the quantities inside items.
NoReport == Report("", <<>>, <<>>)
NoBody ==
    [hasItems |-> FALSE, v1 |-> 0, v9 |-> 0,
     hasMovements |-> FALSE, movements |-> <<>>, report |-> NoReport]

NoReq ==
    [op |-> "none", model |-> NoModel, type |-> "", quantity |-> 0,
     observations |-> "", date |-> 0, rdate |-> "", body |-> NoBody]

NoMovement ==
    [date |-> 0, type |-> "", model |-> NoModel, source |-> "",
     destination |-> "", responsibleUser |-> "", observations |-> "",
     quantity |-> 0]

NoLoc ==
    [modelKey |-> "", newQuantity |-> 0, stamp |-> 0, movement |-> NoMovement,
     totalV1 |-> 0, totalV9 |-> 0, newV1 |-> 0, newV9 |-> 0, movements |-> <<>>]

\* status: the HTTP status of the response; before, after: the stock
\* collection when the request arrived and when it was answered; body: the
\* movements array a getMovements response carries;
\* reportsBefore, reportsAfter: the reports collection at the same moments;
\* failedAt: the store call that threw, for a 500 response.
NoRes ==
    [status |-> 0, before |-> <<>>, after |-> <<>>,
     reportsBefore |-> <<>>, reportsAfter |-> <<>>, failedAt |-> "",
     body |-> <<>>]

\* Bodies of POST /api/stock/movement.
AddBodies ==
    [op : {"addMovement"}, model : Models, type : Types,
     quantity : 0..MaxQty, observations : ObsTexts, date : {0}, rdate : {""},
     body : {NoBody}]

\* DELETE /api/stock/movement/:date
DeleteMovementReqs ==
    [op : {"deleteMovement"}, model : {NoModel}, type : {""}, quantity : {0},
     observations : {""}, date : 0..2, rdate : {""}, body : {NoBody}]

\* DELETE /api/reports/:date
DeleteReportReqs ==
    [op : {"deleteReport"}, model : {NoModel}, type : {""}, quantity : {0},
     observations : {""}, date : {0}, rdate : ReportDates, body : {NoBody}]

\* The requests of the sequential specification.
Requests == AddBodies \cup DeleteMovementReqs \cup DeleteReportReqs

\* The requests of the concurrent specification: known models, entries and
\* exits of a positive quantity.
ConcurrentRequests ==
    {r \in Requests :
        r.op = "addMovement" =>
            /\ r.model \in {ModelV1, ModelV9}
            /\ r.type \in {"entry", "exit"}
            /\ r.quantity > 0}

\* res.status(status).json(...): the handler of p ends.
Respond(p, status) ==
    /\ pc' = [pc EXCEPT ![p] = "done"]
    /\ res' = [res EXCEPT ![p].status = status,
                          ![p].after = stockColl',
                          ![p].reportsAfter = reportsColl']
    /\ UNCHANGED <<req, loc, overlapped>>
    /\ UNCHANGED connVars

\* The handler of p goes on to its next store call.
Goto(p, label, l) ==
    /\ pc' = [pc EXCEPT ![p] = label]
    /\ loc' = [loc EXCEPT ![p] = l]
    /\ UNCHANGED <<req, res, overlapped>>
    /\ UNCHANGED connVars

\* ------------------------------------------------------------------ Init
Init ==
    /\ stockColl \in {<<>>} \cup {<<StockDoc(a, b)>> : a, b \in 0..MaxInit}
    /\ reportsColl \in InitReports
    /\ now = 0
    /\ pc = [p \in Procs |-> "idle"]
    /\ req = [p \in Procs |-> NoReq]
    /\ loc = [p \in Procs |-> NoLoc]
    /\ res = [p \in Procs |-> NoRes]
    /\ overlapped = FALSE
    /\ InitConn

\* ------------------------------------------------------- request arrival
FirstCall(op) ==
    CASE op = "addMovement" -> "am_findOne"
      [] op = "deleteMovement" -> "dm_findOne"
      [] op = "deleteReport" -> "dr_findReport"
      [] op = "getMovements" -> "gm_findOne"
      [] op = "createReport" -> "cr_insertOne"
      [] op = "getStock" -> "gs_findOne"
      [] op = "getApiStock" -> "seed_findOne"
      [] op = "updateStock" -> "us_updateOne"
      [] op = "updateReport" -> "ur_updateOne"

\* Express dispatches request p to its handler, which issues its first
\* store call.  Request 2 arrives after request 1.
Receive(p, r) ==
    /\ pc[p] = "idle"
    /\ \A o \in Procs : o < p => pc[o] # "idle"
    /\ pc' = [pc EXCEPT ![p] = FirstCall(r.op)]
    /\ req' = [req EXCEPT ![p] = r]
    /\ res' = [res EXCEPT ![p].before = stockColl,
                          ![p].reportsBefore = reportsColl]
    /\ overlapped' = (overlapped \/ \E o \in Procs \ {p} : pc[o] \notin {"idle", "done"})
    /\ UNCHANGED <<stockColl, reportsColl, now, loc>>
    /\ UNCHANGED connVars

\* A request that arrives when no other request is in flight.
ReceiveAlone(p, r) ==
    /\ \A o \in Procs \ {p} : pc[o] \in {"idle", "done"}
    /\ Receive(p, r)

\* ----------------------------------------------------------- addMovement
\* modelKey of addMovement.
AddModelKey(model) == IF model = ModelV1 THEN "v1" ELSE "v9"

\* Mutant: the signs of entry and exit exchanged.
AddQuantityChangeSwapped(type, quantity) ==
    IF type = "entry" THEN 0 - quantity ELSE quantity

\* Mutant: every movement is added, whatever its type.
AddQuantityChangeAlwaysAdds(type, quantity) == quantity

\* Mutant: only an 'exit' is subtracted; any other type leaves the quantity.
AddQuantityChangeExitOnly(type, quantity) ==
    IF type = "entry" THEN quantity
    ELSE IF type = "exit" THEN 0 - quantity ELSE 0

\* quantityChange of addMovement.
AddQuantityChange(type, quantity) == IF type = "entry" THEN quantity ELSE 0 - quantity

\* Mutant: the check is off by one.
InsufficientStockOffByOne(newQuantity) == newQuantity < 0 - 1

\* if (newQuantity < 0): the insufficient-stock check.
InsufficientStock(newQuantity) == newQuantity < 0

\* The movement pushed by addMovement: the body stamped with the date.
AddMovementDoc(body, t) ==
    [date |-> t, type |-> body.type, model |-> body.model, source |-> "",
     destination |-> "", responsibleUser |-> "", observations |-> body.observations,
     quantity |-> body.quantity]

\* Mutant: $set replaces the whole items object, so the other variant's
\* quantity is lost.
AddUpdateReplacesItems(stock, l) ==
    [stock EXCEPT
       !.movements = Append(@, l.movement),
       !.items = IF l.modelKey = "v1"
                 THEN [v1 |-> [quantity |-> l.newQuantity, lastUpdate |-> l.stamp],
                       v9 |-> [quantity |-> 0, lastUpdate |-> l.stamp]]
                 ELSE [v1 |-> [quantity |-> 0, lastUpdate |-> l.stamp],
                       v9 |-> [quantity |-> l.newQuantity, lastUpdate |-> l.stamp]]]

\* Mutant: the update pushes the movement and leaves the $set to a later
\* call.
AddUpdatePushOnly(stock, l) == [stock EXCEPT !.movements = Append(@, l.movement)]

\* The update document of addMovement applied to the first stock document.
AddUpdate(stock, l) ==
    SetItem([stock EXCEPT !.movements = Append(@, l.movement)],
            l.modelKey, l.newQuantity, l.stamp)

\* Mutant: a missing stock record is read as zero quantities (stock?.items)
\* instead of being answered with 404.
AddMovementFindOptional(p) ==
    /\ pc[p] = "am_findOne"
    /\ \E t \in {now, now + 1} :
         LET modelKey == AddModelKey(req[p].model)
             currentQuantity ==
                 IF HasStock(stockColl)
                 THEN OrZero(QuantityOf(FindOne(stockColl), modelKey)) ELSE 0
             newQuantity == currentQuantity
                              + AddQuantityChange(req[p].type, req[p].quantity)
         IN  /\ now' = t
             /\ UNCHANGED <<stockColl, reportsColl>>
             /\ IF InsufficientStock(newQuantity)
                THEN /\ UNCHANGED loc
                     /\ Respond(p, 400)
                ELSE Goto(p, "am_updateOne",
                          [loc[p] EXCEPT !.modelKey = modelKey,
                                         !.newQuantity = newQuantity,
                                         !.stamp = t,
                                         !.movement = AddMovementDoc(req[p], t)])

\* findOne() and the code up to updateOne().
AddMovementFind(p) ==
    /\ pc[p] = "am_findOne"
    /\ IF ~HasStock(stockColl)
       THEN /\ UNCHANGED <<stockColl, reportsColl, now, loc>>
            /\ Respond(p, 404)
       ELSE \E t \in {now, now + 1} :
            LET stock == FindOne(stockColl)
                modelKey == AddModelKey(req[p].model)
                currentQuantity == OrZero(QuantityOf(stock, modelKey))
                newQuantity == currentQuantity
                                 + AddQuantityChange(req[p].type, req[p].quantity)
            IN  /\ now' = t
                /\ UNCHANGED <<stockColl, reportsColl>>
                /\ IF InsufficientStock(newQuantity)
                   THEN /\ UNCHANGED loc
                        /\ Respond(p, 400)
                   ELSE Goto(p, "am_updateOne",
                             [loc[p] EXCEPT !.modelKey = modelKey,
                                            !.newQuantity = newQuantity,
                                            !.stamp = t,
                                            !.movement = AddMovementDoc(req[p], t)])

\* updateOne({}, {$push, $set}): one atomic update of the first document,
\* then the findOne() that reads the record back for the 201 response.
AddMovementUpdate(p) ==
    /\ pc[p] = "am_updateOne"
    /\ stockColl' = IF HasStock(stockColl)
                    THEN [stockColl EXCEPT ![1] = AddUpdate(@, loc[p])]
                    ELSE stockColl
    /\ UNCHANGED <<reportsColl, now>>
    /\ Respond(p, 201)

\* -------------------------------------------------------- deleteMovement
\* stock.movements.find(m => m.date === movementDate): is there a match,
\* and the first match.
HasMovement(movements, date) == \E i \in 1..Len(movements) : movements[i].date = date
FindMovement(movements, date) ==
    movements[CHOOSE i \in 1..Len(movements) :
                  /\ movements[i].date = date
                  /\ \A j \in 1..(i - 1) : movements[j].date # date]

\* modelKey of deleteMovement: read off the observations text.
DeleteModelKey(movement) == IF Includes(movement.observations, "V1") THEN "v1" ELSE "v9"

\* quantityChange of deleteMovement: an entry is subtracted, anything else
\* is added back.
DeleteQuantityChange(movement) ==
    IF movement.type = "entry" THEN 0 - movement.quantity ELSE movement.quantity

\* Mutant: the check is off by one.
NegativeStockOffByOne(newQuantity) == newQuantity < 0 - 1

\* if (newQuantity < 0): the reversal would leave a negative stock.
NegativeStock(newQuantity) == newQuantity < 0

\* Mutant: only the first match is removed.
PullFirst(movements, date) ==
    IF \E i \in 1..Len(movements) : movements[i].date = date
    THEN LET k == CHOOSE i \in 1..Len(movements) :
                      /\ movements[i].date = date
                      /\ \A j \in 1..(i - 1) : movements[j].date # date
         IN  SubSeq(movements, 1, k - 1) \o SubSeq(movements, k + 1, Len(movements))
    ELSE movements

\* $pull: { movements: { date: movementDate } } removes every match.
Pull(movements, date) == SelectSeq(movements, LAMBDA m : m.date # date)

\* Mutant: the quantity is changed by the delta ($inc) instead of being set
\* to the value computed from the record that was read.
DeleteUpdateIncrements(stock, date, l) ==
    SetItem([stock EXCEPT !.movements = Pull(@, date)],
            l.modelKey,
            QuantityOf(stock, l.modelKey) + DeleteQuantityChange(l.movement),
            l.stamp)

\* The update document of deleteMovement applied to the first stock document.
DeleteUpdate(stock, date, l) ==
    SetItem([stock EXCEPT !.movements = Pull(@, date)],
            l.modelKey, l.newQuantity, l.stamp)

\* findOne() and the code up to updateOne().
DeleteMovementFind(p) ==
    /\ pc[p] = "dm_findOne"
    /\ IF ~HasStock(stockColl)
       THEN /\ UNCHANGED <<stockColl, reportsColl, now, loc>>
            /\ Respond(p, 404)
       ELSE IF ~HasMovement(FindOne(stockColl).movements, req[p].date)
       THEN /\ UNCHANGED <<stockColl, reportsColl, now, loc>>
            /\ Respond(p, 404)
       ELSE \E t \in {now, now + 1} :
            LET stock == FindOne(stockColl)
                movementToDelete == FindMovement(stock.movements, req[p].date)
                modelKey == DeleteModelKey(movementToDelete)
                currentQuantity == OrZero(QuantityOf(stock, modelKey))
                newQuantity == currentQuantity + DeleteQuantityChange(movementToDelete)
            IN  /\ UNCHANGED <<stockColl, reportsColl>>
                /\ IF NegativeStock(newQuantity)
                   THEN /\ UNCHANGED <<now, loc>>
                        /\ Respond(p, 400)
                   ELSE /\ now' = t
                        /\ Goto(p, "dm_updateOne",
                                [loc[p] EXCEPT !.modelKey = modelKey,
                                               !.newQuantity = newQuantity,
                                               !.stamp = t,
                                               !.movement = movementToDelete])

\* updateOne({}, {$pull, $set}): one atomic update of the first document,
\* then the findOne() that reads the record back for the 200 response.
DeleteMovementUpdate(p) ==
    /\ pc[p] = "dm_updateOne"
    /\ stockColl' = IF HasStock(stockColl)
                    THEN [stockColl EXCEPT ![1] = DeleteUpdate(@, req[p].date, loc[p])]
                    ELSE stockColl
    /\ UNCHANGED <<reportsColl, now>>
    /\ Respond(p, 200)

\* ---------------------------------------------------------- deleteReport
\* collection.findOne({'header.date': date}): is there a match, and the
\* index of the first match.
HasReport(coll, date) == \E i \in 1..Len(coll) : coll[i].header.date = date
ReportIndex(coll, date) ==
    CHOOSE i \in 1..Len(coll) :
        /\ coll[i].header.date = date
        /\ \A j \in 1..(i - 1) : coll[j].header.date # date

\* reduce((sum, c) => sum + (c.tested || 0), 0)
RECURSIVE SumTested(_)
SumTested(entries) ==
    IF entries = <<>> THEN 0
    ELSE OrZero(Head(entries).tested) + SumTested(Tail(entries))

\* reduce((sum, c) => sum + (c.v9 || 0), 0)
RECURSIVE SumV9(_)
SumV9(entries) ==
    IF entries = <<>> THEN 0
    ELSE OrZero(Head(entries).v9) + SumV9(Tail(entries))

\* Mutant: the afternoon entries are left out of the total.
TotalV1MorningOnly(report) == SumTested(report.morning)

\* totalV1 and totalV9 of a report.
TotalV1(report) == SumTested(report.morning \o report.afternoon)
TotalV9(report) == SumV9(report.morning \o report.afternoon)

\* Mutant: one unit more than the total is taken off.
NewV1QuantityOneMore(stock, totalV1) ==
    Max0(OrZero(stock.items.v1.quantity) - totalV1 - 1)

\* newV1Quantity and newV9Quantity.
NewV1Quantity(stock, totalV1) == Max0(OrZero(stock.items.v1.quantity) - totalV1)
NewV9Quantity(stock, totalV9) == Max0(OrZero(stock.items.v9.quantity) - totalV9)

\* The compensating movement of one variant.
ExitMovement(t, date, model, quantity) ==
    [date |-> t, type |-> "exit", model |-> NoModel, source |-> "ESTOQUE",
     destination |-> "AJUSTE", responsibleUser |-> "Sistema",
     observations |-> "Saida por exclusao do relatorio de " \o date \o " - " \o model,
     quantity |-> quantity]

\* Mutant: a movement is pushed for each variant, whatever its total.
ReportMovementsUnconditional(t1, t2, date, totalV1, totalV9) ==
    <<ExitMovement(t1, date, ModelV1, totalV1),
      ExitMovement(t2, date, ModelV9, totalV9)>>

\* The movements array built by deleteReport; t1 and t2 are the dates of
\* the two new Date() calls.
ReportMovements(t1, t2, date, totalV1, totalV9) ==
    (IF totalV1 > 0 THEN <<ExitMovement(t1, date, ModelV1, totalV1)>> ELSE <<>>)
    \o (IF totalV9 > 0 THEN <<ExitMovement(t2, date, ModelV9, totalV9)>> ELSE <<>>)

\* $set of both quantities (first updateOne of deleteReport).
SetQuantities(stock, l) ==
    SetItem(SetItem(stock, "v1", l.newV1, l.stamp), "v9", l.newV9, l.stamp)

\* $push: { movements: { $each: movements } } (second updateOne).
PushMovements(stock, l) == [stock EXCEPT !.movements = @ \o l.movements]

\* Mutant: a missing report is read as a report without entries
\* (report?.morning || []) instead of being answered with 404.
DeleteReportFindReportOptional(p) ==
    /\ pc[p] = "dr_findReport"
    /\ UNCHANGED <<stockColl, reportsColl, now>>
    /\ LET report == IF HasReport(reportsColl, req[p].rdate)
                     THEN reportsColl[ReportIndex(reportsColl, req[p].rdate)]
                     ELSE Report(req[p].rdate, <<>>, <<>>)
       IN  Goto(p, "dr_findStock",
                [loc[p] EXCEPT !.totalV1 = TotalV1(report),
                               !.totalV9 = TotalV9(report)])

\* reports findOne({'header.date': date}) and the totals.
DeleteReportFindReport(p) ==
    /\ pc[p] = "dr_findReport"
    /\ UNCHANGED <<stockColl, reportsColl, now>>
    /\ IF ~HasReport(reportsColl, req[p].rdate)
       THEN /\ UNCHANGED loc
            /\ Respond(p, 404)
       ELSE LET report == reportsColl[ReportIndex(reportsColl, req[p].rdate)]
            IN  Goto(p, "dr_findStock",
                     [loc[p] EXCEPT !.totalV1 = TotalV1(report),
                                    !.totalV9 = TotalV9(report)])

\* Mutant: a missing stock record is read as zero quantities
\* (stock?.items) instead of being answered with 404.
DeleteReportFindStockOptional(p) ==
    /\ pc[p] = "dr_findStock"
    /\ UNCHANGED <<stockColl, reportsColl>>
    /\ \E t1 \in {now, now + 1} : \E t2 \in {t1, t1 + 1} :
         LET stock == IF HasStock(stockColl) THEN FindOne(stockColl)
                      ELSE StockDoc(0, 0)
         IN  /\ now' = t2
             /\ Goto(p, "dr_setQuantities",
                     [loc[p] EXCEPT
                        !.newV1 = NewV1Quantity(stock, loc[p].totalV1),
                        !.newV9 = NewV9Quantity(stock, loc[p].totalV9),
                        !.stamp = t2,
                        !.movements = ReportMovements(t1, t2, req[p].rdate,
                                          loc[p].totalV1, loc[p].totalV9)])

\* stock findOne(), the new quantities and the compensating movements.
DeleteReportFindStock(p) ==
    /\ pc[p] = "dr_findStock"
    /\ UNCHANGED <<stockColl, reportsColl>>
    /\ IF ~HasStock(stockColl)
       THEN /\ UNCHANGED <<now, loc>>
            /\ Respond(p, 404)
       ELSE \E t1 \in {now, now + 1} : \E t2 \in {t1, t1 + 1} :
            LET stock == FindOne(stockColl)
            IN  /\ now' = t2
                /\ Goto(p, "dr_setQuantities",
                        [loc[p] EXCEPT
                           !.newV1 = NewV1Quantity(stock, loc[p].totalV1),
                           !.newV9 = NewV9Quantity(stock, loc[p].totalV9),
                           !.stamp = t2,
                           !.movements = ReportMovements(t1, t2, req[p].rdate,
                                             loc[p].totalV1, loc[p].totalV9)])

\* Mutant: the report is deleted right after the quantities are written,
\* before the movements are pushed.
DeleteReportSetQuantitiesThenDelete(p) ==
    /\ pc[p] = "dr_setQuantities"
    /\ stockColl' = IF HasStock(stockColl)
                    THEN [stockColl EXCEPT ![1] = SetQuantities(@, loc[p])]
                    ELSE stockColl
    /\ UNCHANGED <<reportsColl, now>>
    /\ Goto(p, "dr_deleteOne", loc[p])

\* First updateOne: the quantities.
DeleteReportSetQuantities(p) ==
    /\ pc[p] = "dr_setQuantities"
    /\ stockColl' = IF HasStock(stockColl)
                    THEN [stockColl EXCEPT ![1] = SetQuantities(@, loc[p])]
                    ELSE stockColl
    /\ UNCHANGED <<reportsColl, now>>
    /\ Goto(p, IF Len(loc[p].movements) > 0 THEN "dr_pushMovements"
               ELSE "dr_deleteOne", loc[p])

\* Second updateOne: the movements, when there are any.
DeleteReportPushMovements(p) ==
    /\ pc[p] = "dr_pushMovements"
    /\ stockColl' = IF HasStock(stockColl)
                    THEN [stockColl EXCEPT ![1] = PushMovements(@, loc[p])]
                    ELSE stockColl
    /\ UNCHANGED <<reportsColl, now>>
    /\ Goto(p, "dr_deleteOne", loc[p])

\* deleteOne({'header.date': date}) removes the first match; then the
\* findOne() that reads the stock back for the 200 response.
DeleteReportDeleteOne(p) ==
    /\ pc[p] = "dr_deleteOne"
    /\ reportsColl' =
         IF HasReport(reportsColl, req[p].rdate)
         THEN LET i == ReportIndex(reportsColl, req[p].rdate)
              IN  SubSeq(reportsColl, 1, i - 1)
                    \o SubSeq(reportsColl, i + 1, Len(reportsColl))
         ELSE reportsColl
    /\ UNCHANGED <<stockColl, now>>
    /\ Respond(p, 200)

\* Two requests served concurrently.
Next ==
    \/ \E p \in Procs : \E r \in ConcurrentRequests : Receive(p, r)
    \/ \E p \in Procs : AddMovementFind(p)
    \/ \E p \in Procs : AddMovementUpdate(p)
    \/ \E p \in Procs : DeleteMovementFind(p)
    \/ \E p \in Procs : DeleteMovementUpdate(p)
    \/ \E p \in Procs : DeleteReportFindReport(p)
    \/ \E p \in Procs : DeleteReportFindStock(p)
    \/ \E p \in Procs : DeleteReportSetQuantities(p)
    \/ \E p \in Procs : DeleteReportPushMovements(p)
    \/ \E p \in Procs : DeleteReportDeleteOne(p)

Spec == Init /\ [][Next]_vars

\* Two requests served one after the other.
NextSeq ==
    \/ \E p \in Procs : \E r \in Requests : ReceiveAlone(p, r)
    \/ \E p \in Procs : AddMovementFind(p)
    \/ \E p \in Procs : AddMovementUpdate(p)
    \/ \E p \in Procs : DeleteMovementFind(p)
    \/ \E p \in Procs : DeleteMovementUpdate(p)
    \/ \E p \in Procs : DeleteReportFindReport(p)
    \/ \E p \in Procs : DeleteReportFindStock(p)
    \/ \E p \in Procs : DeleteReportSetQuantities(p)
    \/ \E p \in Procs : DeleteReportPushMovements(p)
    \/ \E p \in Procs : DeleteReportDeleteOne(p)

SeqSpec == Init /\ [][NextSeq]_vars

\* ---------------------------------------------------------- getMovements
\* The position Array.prototype.sort gives a movement among the movements
\* already sorted: after every movement whose date is not earlier (the
\* comparator is dateB - dateA and the sort is stable).
InsertByDateDesc(sorted, m) ==
    LET k == Cardinality({i \in 1..Len(sorted) : sorted[i].date >= m.date})
    IN  SubSeq(sorted, 1, k) \o <<m>> \o SubSeq(sorted, k + 1, Len(sorted))

\* Mutant: the movements are returned in their stored order.
Unsorted(movements) == movements

\* movements.sort((a, b) => dateB.getTime() - dateA.getTime())
RECURSIVE SortByDateDesc(_)
SortByDateDesc(movements) ==
    IF movements = <<>> THEN <<>>
    ELSE InsertByDateDesc(SortByDateDesc(SubSeq(movements, 1, Len(movements) - 1)),
                          movements[Len(movements)])

\* GET /api/stock/movements
GetMovementsReqs ==
    [op : {"getMovements"}, model : {NoModel}, type : {""}, quantity : {0},
     observations : {""}, date : {0}, rdate : {""}, body : {NoBody}]

\* findOne(), the sort of the array that was read, and the response.
GetMovements(p) ==
    /\ pc[p] = "gm_findOne"
    /\ pc' = [pc EXCEPT ![p] = "done"]
    /\ res' = [res EXCEPT ![p].status = 200,
                          ![p].after = stockColl,
                          ![p].reportsAfter = reportsColl,
                          ![p].body = SortByDateDesc(Ledger(stockColl))]
    /\ UNCHANGED <<stockColl, reportsColl, now, req, loc, overlapped>>
    /\ UNCHANGED connVars

\* ------------------------------------------- requests on a stored ledger
\* Longest ledger the stock record starts with.
MaxLedger == 2

\* The dates of the movements already in the ledger.
LedgerDates == {1, 2}

\* Movements that earlier addMovement requests have left in the ledger:
\* entries and exits of one unit whose observations name their model.
LedgerMovements ==
    {AddMovementDoc(b, t) :
        b \in {c \in AddBodies :
                  /\ c.quantity = 1
                  /\ c.type \in {"entry", "exit"}
                  /\ \/ c.model = ModelV1 /\ c.observations = "lote V1"
                     \/ c.model = ModelV9 /\ c.observations = "lote V9"},
        t \in LedgerDates}

\* The ledgers a behaviour may start from.  Movements are stored in the
\* order their updates reached the store, which need not be the order of
\* their dates.
InitLedgers == UNION {[1..n -> LedgerMovements] : n \in 0..MaxLedger}

\* A stock record with a ledger; PUT /api/stock sets the quantities of a
\* record whatever its movements are.
InitLedger ==
    /\ stockColl \in {<<>>} \cup
         {<<[StockDoc(a, b) EXCEPT !.movements = l]>> :
             a \in 0..MaxInit, b \in 0..MaxInit, l \in InitLedgers}
    /\ reportsColl = <<>>
    /\ now = 2
    /\ pc = [p \in Procs |-> "idle"]
    /\ req = [p \in Procs |-> NoReq]
    /\ loc = [p \in Procs |-> NoLoc]
    /\ res = [p \in Procs |-> NoRes]
    /\ overlapped = FALSE
    /\ InitConn

\* The requests served on a stored ledger.
LedgerRequests == DeleteMovementReqs \cup GetMovementsReqs

\* Two requests on a stored ledger, served one after the other.
NextLedger ==
    \/ \E p \in Procs : \E r \in LedgerRequests : ReceiveAlone(p, r)
    \/ \E p \in Procs : GetMovements(p)
    \/ \E p \in Procs : DeleteMovementFind(p)
    \/ \E p \in Procs : DeleteMovementUpdate(p)

LedgerSpec == InitLedger /\ [][NextLedger]_vars

\* ------------------------------------------- createReport, updateReport
\* The reports a client submits: the two shift reports of 2024-05-01.
SampleReports ==
    {Report("2024-05-01", <<OperatorEntry(1, 0)>>, <<>>),
     Report("2024-05-01", <<OperatorEntry(1, 0)>>, <<OperatorEntry(1, 1)>>)}

\* POST /api/reports
CreateReportReqs ==
    {[NoReq EXCEPT !.op = "createReport", !.body = [NoBody EXCEPT !.report = r]] :
        r \in SampleReports}

\* PUT /api/reports/:date with a report of that date as body.
UpdateReportReqs ==
    {[NoReq EXCEPT !.op = "updateReport", !.rdate = r.header.date,
                   !.body = [NoBody EXCEPT !.report = r]] :
        r \in SampleReports}

\* Mutant: the report's totals are added to the stock when it is created.
CreateReportAdjustsStock(p) ==
    /\ pc[p] = "cr_insertOne"
    /\ reportsColl' = Append(reportsColl, req[p].body.report)
    /\ stockColl' =
         IF HasStock(stockColl)
         THEN [stockColl EXCEPT
                 ![1].items.v1.quantity = @ + TotalV1(req[p].body.report),
                 ![1].items.v9.quantity = @ + TotalV9(req[p].body.report)]
         ELSE stockColl
    /\ UNCHANGED now
    /\ Respond(p, 201)

\* insertOne(req.body): the report is added to the collection, whatever
\* the collection holds.
CreateReport(p) ==
    /\ pc[p] = "cr_insertOne"
    /\ reportsColl' = Append(reportsColl, req[p].body.report)
    /\ UNCHANGED <<stockColl, now>>
    /\ Respond(p, 201)

\* $set: req.body on a report document.
SetReport(old, body) ==
    [old EXCEPT !.header = body.report.header,
                !.morning = body.report.morning,
                !.afternoon = body.report.afternoon]

\* updateOne({'header.date': date}, {$set: req.body}, {upsert: true}): the
\* first report of that date is updated, or the body is inserted when there
\* is none.
UpdateReport(p) ==
    /\ pc[p] = "ur_updateOne"
    /\ reportsColl' =
         IF HasReport(reportsColl, req[p].rdate)
         THEN [reportsColl EXCEPT
                 ![ReportIndex(reportsColl, req[p].rdate)] = SetReport(@, req[p].body)]
         ELSE Append(reportsColl, req[p].body.report)
    /\ UNCHANGED <<stockColl, now>>
    /\ Respond(p, 200)

\* The report collections a behaviour on reports may start from: those of
\* InitReports, and the collection two createReport requests of the same
\* date leave.
InitStoredReports ==
    InitReports \cup
      {<<Report("2024-05-01", <<OperatorEntry(1, 0)>>, <<>>),
         Report("2024-05-01", <<OperatorEntry(1, 0)>>, <<OperatorEntry(1, 1)>>)>>}

InitReport ==
    /\ stockColl \in {<<>>} \cup {<<StockDoc(a, b)>> : a, b \in 0..MaxInit}
    /\ reportsColl \in InitStoredReports
    /\ now = 0
    /\ pc = [p \in Procs |-> "idle"]
    /\ req = [p \in Procs |-> NoReq]
    /\ loc = [p \in Procs |-> NoLoc]
    /\ res = [p \in Procs |-> NoRes]
    /\ overlapped = FALSE
    /\ InitConn

\* The requests on /api/reports.
ReportRequests == CreateReportReqs \cup UpdateReportReqs \cup DeleteReportReqs

\* Two requests on reports served concurrently.
NextReport ==
    \/ \E p \in Procs : \E r \in ReportRequests : Receive(p, r)
    \/ \E p \in Procs : CreateReport(p)
    \/ \E p \in Procs : UpdateReport(p)
    \/ \E p \in Procs : DeleteReportFindReport(p)
    \/ \E p \in Procs : DeleteReportFindStock(p)
    \/ \E p \in Procs : DeleteReportSetQuantities(p)
    \/ \E p \in Procs : DeleteReportPushMovements(p)
    \/ \E p \in Procs : DeleteReportDeleteOne(p)

ReportSpec == InitReport /\ [][NextReport]_vars

\* ------------------------------------------------- getStock, updateStock
\* GET /api/stock of the server with named handlers (getStock), GET
\* /api/stock of the servers that seed the record, PUT /api/stock.
GetStockReqs == {[NoReq EXCEPT !.op = "getStock"]}
GetApiStockReqs == {[NoReq EXCEPT !.op = "getApiStock"]}

\* Bodies of PUT /api/stock: an object with items, with movements, or
\* with both.
UpdateStockReqs ==
    {[NoReq EXCEPT !.op = "updateStock",
                   !.body = [NoBody EXCEPT !.hasItems = f[1], !.hasMovements = f[2],
                                           !.v1 = IF f[1] THEN 1 ELSE 0]] :
        f \in {g \in BOOLEAN \X BOOLEAN : g[1] \/ g[2]}}

\* getStock: findOne() and res.json(stock); stock is null when the
\* collection is empty.
GetStock(p) ==
    /\ pc[p] = "gs_findOne"
    /\ pc' = [pc EXCEPT ![p] = "done"]
    /\ res' = [res EXCEPT ![p].status = 200,
                          ![p].after = stockColl,
                          ![p].reportsAfter = reportsColl,
                          ![p].body = IF HasStock(stockColl)
                                      THEN <<FindOne(stockColl)>> ELSE <<>>]
    /\ UNCHANGED <<stockColl, reportsColl, now, req, loc, overlapped>>
    /\ UNCHANGED connVars

\* initialStock: zero quantities stamped with the date, no movements.
InitialStock(t) ==
    [StockDoc(0, 0) EXCEPT !.items.v1.lastUpdate = t, !.items.v9.lastUpdate = t]

\* GET /api/stock with seeding: findOne(); the record is answered when
\* there is one, else initialStock is built for insertOne().
GetApiStockFind(p) ==
    /\ pc[p] = "seed_findOne"
    /\ UNCHANGED <<stockColl, reportsColl>>
    /\ IF HasStock(stockColl)
       THEN /\ pc' = [pc EXCEPT ![p] = "done"]
            /\ res' = [res EXCEPT ![p].status = 200,
                                  ![p].after = stockColl,
                                  ![p].reportsAfter = reportsColl,
                                  ![p].body = <<FindOne(stockColl)>>]
            /\ UNCHANGED <<now, req, loc, overlapped>>
            /\ UNCHANGED connVars
       ELSE \E t \in {now, now + 1} :
            /\ now' = t
            /\ Goto(p, "seed_insertOne", [loc[p] EXCEPT !.stamp = t])

\* insertOne(initialStock) and res.json(initialStock).
GetApiStockInsert(p) ==
    /\ pc[p] = "seed_insertOne"
    /\ stockColl' = Append(stockColl, InitialStock(loc[p].stamp))
    /\ UNCHANGED <<reportsColl, now>>
    /\ pc' = [pc EXCEPT ![p] = "done"]
    /\ res' = [res EXCEPT ![p].status = 200,
                          ![p].after = stockColl',
                          ![p].reportsAfter = reportsColl,
                          ![p].body = <<InitialStock(loc[p].stamp)>>]
    /\ UNCHANGED <<req, loc, overlapped>>
    /\ UNCHANGED connVars

\* $set: req.body on a stock document: every field of the body replaces
\* the field of that name.
SetStock(doc, body) ==
    [doc EXCEPT
       !.hasItems = IF body.hasItems THEN TRUE ELSE @,
       !.items = IF body.hasItems
                 THEN [v1 |-> [quantity |-> body.v1, lastUpdate |-> 0],
                       v9 |-> [quantity |-> body.v9, lastUpdate |-> 0]]
                 ELSE @,
       !.movements = IF body.hasMovements THEN body.movements ELSE @]

\* updateStock: updateOne({}, {$set: req.body}, {upsert: true}) updates the
\* first document, or inserts a document made of the body's fields when the
\* collection is empty.
UpdateStock(p) ==
    /\ pc[p] = "us_updateOne"
    /\ stockColl' =
         IF HasStock(stockColl)
         THEN [stockColl EXCEPT ![1] = SetStock(@, req[p].body)]
         ELSE <<SetStock([StockDoc(0, 0) EXCEPT !.hasItems = FALSE], req[p].body)>>
    /\ UNCHANGED <<reportsColl, now>>
    /\ Respond(p, 200)

\* The ledger one earlier entry of a V1 unit has left.
EntryLedger ==
    <<AddMovementDoc([NoReq EXCEPT !.op = "addMovement", !.model = ModelV1,
                                   !.type = "entry", !.quantity = 1,
                                   !.observations = "lote V1"], 1)>>

\* The stock collections a behaviour on /api/stock may start from: empty,
\* or one record with or without a movement in its ledger.
InitStock ==
    /\ stockColl \in {<<>>} \cup
         {<<[StockDoc(a, b) EXCEPT !.movements = l]>> :
             a \in 0..MaxInit, b \in 0..MaxInit, l \in {<<>>, EntryLedger}}
    /\ reportsColl = <<>>
    /\ now = 1
    /\ pc = [p \in Procs |-> "idle"]
    /\ req = [p \in Procs |-> NoReq]
    /\ loc = [p \in Procs |-> NoLoc]
    /\ res = [p \in Procs |-> NoRes]
    /\ overlapped = FALSE
    /\ InitConn

\* The requests on /api/stock.
StockRequests == GetStockReqs \cup GetApiStockReqs \cup UpdateStockReqs

\* A server has one handler for GET /api/stock: the two requests of a
\* behaviour are not served by different ones.
SameServer(r) ==
    \A o \in Procs : {req[o].op, r.op} # {"getStock", "getApiStock"}

\* Two requests on /api/stock served concurrently.
NextStock ==
    \/ \E p \in Procs : \E r \in StockRequests : SameServer(r) /\ Receive(p, r)
    \/ \E p \in Procs : GetStock(p)
    \/ \E p \in Procs : GetApiStockFind(p)
    \/ \E p \in Procs : GetApiStockInsert(p)
    \/ \E p \in Procs : UpdateStock(p)

StockSpec == InitStock /\ [][NextStock]_vars

\* -------------------------------------------------------- store failures
\* The store call request p is waiting on rejects (the store is unreachable
\* or times out) without effect on the stored documents: the handler's
\* catch block answers 500.
StoreFails(p) ==
    /\ pc[p] \notin {"idle", "done"}
    /\ UNCHANGED <<stockColl, reportsColl, now>>
    /\ pc' = [pc EXCEPT ![p] = "done"]
    /\ res' = [res EXCEPT ![p].status = 500,
                          ![p].after = stockColl,
                          ![p].reportsAfter = reportsColl,
                          ![p].failedAt = pc[p]]
    /\ UNCHANGED <<req, loc, overlapped>>
    /\ UNCHANGED connVars

\* The requests served while store calls may fail: deletions of reports and
\* of movements, and entries of a known model.
FailRequests ==
    {r \in ConcurrentRequests :
        r.op = "addMovement" => (r.type = "entry" /\ r.observations = "lote V1")}

\* Two requests served one after the other by a store whose calls may fail.
NextFail ==
    \/ \E p \in Procs : \E r \in FailRequests : ReceiveAlone(p, r)
    \/ \E p \in Procs : AddMovementFind(p)
    \/ \E p \in Procs : AddMovementUpdate(p)
    \/ \E p \in Procs : DeleteMovementFind(p)
    \/ \E p \in Procs : DeleteMovementUpdate(p)
    \/ \E p \in Procs : DeleteReportFindReport(p)
    \/ \E p \in Procs : DeleteReportFindStock(p)
    \/ \E p \in Procs : DeleteReportSetQuantities(p)
    \/ \E p \in Procs : DeleteReportPushMovements(p)
    \/ \E p \in Procs : DeleteReportDeleteOne(p)
    \/ \E p \in Procs : StoreFails(p)

FailSpec == Init /\ [][NextFail]_vars

\* -------------------------------------------------------- malformed bodies
\* req.body.type of a body that has no `type` field: undefined, which is
\* not 'entry'.
NoType == "(none)"

\* Bodies of POST /api/stock/movement with or without a `type` field.
MalformedBodies ==
    [op : {"addMovement"}, model : {ModelV1, ModelV9}, type : {"entry", NoType},
     quantity : 0..MaxQty, observations : {"lote V1"}, date : {0}, rdate : {""},
     body : {NoBody}]

\* Two POST /api/stock/movement requests served one after the other.
NextMalformed ==
    \/ \E p \in Procs : \E r \in MalformedBodies : ReceiveAlone(p, r)
    \/ \E p \in Procs : AddMovementFind(p)
    \/ \E p \in Procs : AddMovementUpdate(p)

MalformedSpec == Init /\ [][NextMalformed]_vars

\* ------------------------------------------------------- movement types
\* Bodies of POST /api/stock/movement with the types the interface names
\* and one it does not.
TypedBodies ==
    [op : {"addMovement"}, model : {ModelV1, ModelV9},
     type : {"entry", "exit", "adjustment", "transfer"},
     quantity : 0..MaxQty, observations : {"lote V1"}, date : {0}, rdate : {""},
     body : {NoBody}]

\* Two POST /api/stock/movement requests served one after the other.
NextTyped ==
    \/ \E p \in Procs : \E r \in TypedBodies : ReceiveAlone(p, r)
    \/ \E p \in Procs : AddMovementFind(p)
    \/ \E p \in Procs : AddMovementUpdate(p)

TypedSpec == Init /\ [][NextTyped]_vars

\* ------------------------------------------------- deleteReport, rerun
\* The records a deletion and its rerun start from: quantities that two
\* subtractions do not exhaust, and reports with and without totals.
InitRerun ==
    /\ stockColl \in {<<StockDoc(a, b)>> : a, b \in 0..(MaxInit + 1)}
    /\ reportsColl \in
         InitReports \cup {<<Report("2024-05-01", <<OperatorEntry(0, 0)>>, <<>>)>>}
    /\ now = 0
    /\ pc = [p \in Procs |-> "idle"]
    /\ req = [p \in Procs |-> NoReq]
    /\ loc = [p \in Procs |-> NoLoc]
    /\ res = [p \in Procs |-> NoRes]
    /\ overlapped = FALSE
    /\ InitConn

\* Two DELETE /api/reports/:date requests served one after the other by a
\* store whose calls may fail.
NextRerun ==
    \/ \E p \in Procs : \E r \in DeleteReportReqs : ReceiveAlone(p, r)
    \/ \E p \in Procs : DeleteReportFindReport(p)
    \/ \E p \in Procs : DeleteReportFindStock(p)
    \/ \E p \in Procs : DeleteReportSetQuantities(p)
    \/ \E p \in Procs : DeleteReportPushMovements(p)
    \/ \E p \in Procs : DeleteReportDeleteOne(p)
    \/ \E p \in Procs : StoreFails(p)

RerunSpec == InitRerun /\ [][NextRerun]_vars

\* Two DELETE /api/reports/:date requests served concurrently.
NextConcurrentDelete ==
    \/ \E p \in Procs : \E r \in DeleteReportReqs : Receive(p, r)
    \/ \E p \in Procs : DeleteReportFindReport(p)
    \/ \E p \in Procs : DeleteReportFindStock(p)
    \/ \E p \in Procs : DeleteReportSetQuantities(p)
    \/ \E p \in Procs : DeleteReportPushMovements(p)
    \/ \E p \in Procs : DeleteReportDeleteOne(p)

ConcurrentDeleteSpec == InitRerun /\ [][NextConcurrentDelete]_vars

\* Two DELETE /api/stock/movement/:date requests on a stored ledger, served
\* concurrently.
NextConcurrentLedger ==
    \/ \E p \in Procs : \E r \in DeleteMovementReqs : Receive(p, r)
    \/ \E p \in Procs : DeleteMovementFind(p)
    \/ \E p \in Procs : DeleteMovementUpdate(p)

ConcurrentLedgerSpec == InitLedger /\ [][NextConcurrentLedger]_vars

\* ------------------------------------------------------ connectToDatabase
\* connectToDatabase is an async function: a call runs without
\* interruption from one await to the next, and other calls may run
\* between two of its awaits.  One action is one await together with the
\* synchronous code that follows it.  A MongoClient instance is "new" when
\* constructed, "connected" once connect() has succeeded, "ready" once the
\* pings have succeeded as well, "closed" after close().

\* return client / throw 'not initialized' (lines 79-83), with the module
\* variables as the call leaves them.
Leave(c, cl, connecting, count, insts) ==
    [call[c] EXCEPT
       !.pc = IF cl = Null THEN "threw" ELSE "returned",
       !.returned = cl,
       !.returnedReady = IF cl = Null THEN FALSE ELSE insts[cl] = "ready",
       !.clientAfter = cl,
       !.isConnectingAfter = connecting,
       !.retryCountAfter = count]

\* throw out of the outer catch block, after finally.
Throw(c, cl, connecting, count) ==
    [call[c] EXCEPT
       !.pc = "threw",
       !.clientAfter = cl,
       !.isConnectingAfter = connecting,
       !.retryCountAfter = count]

\* while (retryCount < MAX_RETRIES)
LoopEntered(count) == count < MAX_RETRIES

\* A call of connectToDatabase up to its first await: the test of client
\* and isConnecting; in the branch, the new MongoClient and the loop
\* condition; past the branch, the return.
ConnectToDatabase(c) ==
    /\ call[c].pc = "idle"
    /\ UNCHANGED retryCount
    /\ IF client = Null /\ ~isConnecting
       THEN LET id == Len(clients) + 1
                insts == Append(clients, "new")
            IN  /\ clients' = insts
                /\ client' = id
                /\ IF LoopEntered(retryCount)
                   THEN /\ isConnecting' = TRUE
                        /\ call' = [call EXCEPT
                                      ![c].pc = "connect",
                                      ![c].entered = TRUE,
                                      ![c].retryCountAtEntry = retryCount]
                   ELSE /\ isConnecting' = FALSE
                        /\ call' = [call EXCEPT ![c] =
                                      [Leave(c, id, FALSE, retryCount, insts) EXCEPT
                                         !.entered = TRUE,
                                         !.retryCountAtEntry = retryCount]]
       ELSE /\ UNCHANGED <<client, isConnecting, clients>>
            /\ call' = [call EXCEPT ![c] =
                          [Leave(c, client, isConnecting, retryCount, clients) EXCEPT
                             !.retryCountAtEntry = retryCount]]
    /\ UNCHANGED storeVars

\* if (retryCount >= MAX_RETRIES)
Exhausted(count) == count >= MAX_RETRIES

\* The inner catch block up to its await: retryCount++, then the throw to
\* the outer catch block (which awaits client.close) or the close before
\* the next attempt.
CatchAttempt(c, attempts) ==
    /\ retryCount' = retryCount + 1
    /\ call' = [call EXCEPT
                  ![c].pc = IF Exhausted(retryCount + 1)
                            THEN "fatal_close" ELSE "retry_close",
                  ![c].attempts = attempts]
    /\ UNCHANGED <<client, isConnecting, clients>>

\* await client.connect(): it succeeds or rejects.
Connect(c) ==
    /\ call[c].pc = "connect"
    /\ \E ok \in BOOLEAN :
         IF ok
         THEN /\ clients' = [clients EXCEPT ![client] = "connected"]
              /\ call' = [call EXCEPT ![c].pc = "ping",
                                      ![c].attempts = @ + 1]
              /\ UNCHANGED <<client, isConnecting, retryCount>>
         ELSE CatchAttempt(c, call[c].attempts + 1)
    /\ UNCHANGED storeVars

\* The two pings: they succeed (retryCount = 0, break, finally, return
\* client) or one of them rejects.
Ping(c) ==
    /\ call[c].pc = "ping"
    /\ \E ok \in BOOLEAN :
         IF ok
         THEN LET insts == [clients EXCEPT ![client] = "ready"]
              IN  /\ clients' = insts
                  /\ retryCount' = 0
                  /\ isConnecting' = FALSE
                  /\ UNCHANGED client
                  /\ call' = [call EXCEPT ![c] = Leave(c, client, FALSE, 0, insts)]
         ELSE CatchAttempt(c, call[c].attempts)
    /\ UNCHANGED storeVars

\* await client.close(true) before the next attempt.
RetryClose(c) ==
    /\ call[c].pc = "retry_close"
    /\ clients' = [clients EXCEPT ![client] = "closed"]
    /\ call' = [call EXCEPT ![c].pc = "delay"]
    /\ UNCHANGED <<client, isConnecting, retryCount>>
    /\ UNCHANGED storeVars

\* The backoff timer fires: a new MongoClient, and the loop condition.
Delay(c) ==
    /\ call[c].pc = "delay"
    /\ LET id == Len(clients) + 1
           insts == Append(clients, "new")
       IN  /\ clients' = insts
           /\ client' = id
           /\ UNCHANGED retryCount
           /\ IF LoopEntered(retryCount)
              THEN /\ UNCHANGED isConnecting
                   /\ call' = [call EXCEPT ![c].pc = "connect"]
              ELSE /\ isConnecting' = FALSE
                   /\ call' = [call EXCEPT ![c] =
                                 Leave(c, id, FALSE, retryCount, insts)]
    /\ UNCHANGED storeVars

\* The outer catch block: await client.close(true), client = null, throw;
\* finally isConnecting = false.
FatalClose(c) ==
    /\ call[c].pc = "fatal_close"
    /\ clients' = [clients EXCEPT ![client] = "closed"]
    /\ client' = Null
    /\ isConnecting' = FALSE
    /\ UNCHANGED retryCount
    /\ call' = [call EXCEPT ![c] = Throw(c, Null, FALSE, retryCount)]
    /\ UNCHANGED storeVars

\* The connection layer alone: no request is served.
InitConnect ==
    /\ stockColl = <<>>
    /\ reportsColl = <<>>
    /\ now = 0
    /\ pc = [p \in Procs |-> "idle"]
    /\ req = [p \in Procs |-> NoReq]
    /\ loc = [p \in Procs |-> NoLoc]
    /\ res = [p \in Procs |-> NoRes]
    /\ overlapped = FALSE
    /\ InitConn

\* Calls of connectToDatabase, made at any moment.
NextConnect ==
    \/ \E c \in Callers : ConnectToDatabase(c)
    \/ \E c \in Callers : Connect(c)
    \/ \E c \in Callers : Ping(c)
    \/ \E c \in Callers : RetryClose(c)
    \/ \E c \in Callers : Delay(c)
    \/ \E c \in Callers : FatalClose(c)

ConnectSpec == InitConnect /\ [][NextConnect]_vars

\* ------------------------------------------------------------ properties
AllDone == \A p \in Procs : pc[p] = "done"
IsAdd(p) == req[p].op = "addMovement"
Done(p) == pc[p] = "done"
OtherKey(modelKey) == IF modelKey = "v1" THEN "v9" ELSE "v1"
InLedger(coll, movement) ==
    \E i \in 1..Len(Ledger(coll)) : Ledger(coll)[i] = movement

\* The signed delta of a movement: +quantity for an entry, -quantity for
\* an exit.
SignedDelta(r) == IF r.type = "entry" THEN r.quantity ELSE 0 - r.quantity

\* The variant a known model name stands for.
VariantOf(model) == IF model = ModelV1 THEN "v1" ELSE "v9"

\* C1: in every state reachable by any interleaving of addMovement,
\* deleteMovement and deleteReport requests from a stock record with
\* non-negative quantities, the quantities of v1 and v9 are both >= 0.
C1_QuantitiesNonNegative ==
    \A i \in 1..Len(stockColl) :
        /\ stockColl[i].items.v1.quantity >= 0
        /\ stockColl[i].items.v9.quantity >= 0

\* An exit and a report deletion that ran concurrently, both applied, have
\* left v1 at zero.
C1_Witness ==
    /\ AllDone /\ overlapped
    /\ IsAdd(1) /\ req[1].type = "exit" /\ req[1].model = ModelV1
    /\ res[1].status = 201
    /\ req[2].op = "deleteReport" /\ res[2].status = 200
    /\ loc[2].totalV1 > 0
    /\ Quantities(stockColl).v1 = 0

\* C2: two addMovement requests on the same variant that run concurrently
\* and both succeed leave the variant's quantity equal to the initial
\* quantity plus both signed deltas (no update is lost).
C2_NoLostUpdate ==
    ( /\ AllDone /\ overlapped
      /\ IsAdd(1) /\ IsAdd(2)
      /\ res[1].status = 201 /\ res[2].status = 201
      /\ VariantOf(req[1].model) = VariantOf(req[2].model) )
    => QuantityOf(FindOne(stockColl), VariantOf(req[1].model))
         = QuantityOf(FindOne(res[1].before), VariantOf(req[1].model))
             + SignedDelta(req[1]) + SignedDelta(req[2])

\* What an addMovement request running alone makes of a quantity.
AloneQuantity(q, r) == IF q + SignedDelta(r) < 0 THEN q ELSE q + SignedDelta(r)

\* C3: two concurrent addMovement requests on different variants: under
\* every interleaving each variant's final quantity is what its request
\* alone would have produced, and both movements are in the ledger.
C3_DisjointVariants ==
    ( /\ AllDone /\ overlapped
      /\ IsAdd(1) /\ IsAdd(2)
      /\ HasStock(res[1].before)
      /\ VariantOf(req[1].model) # VariantOf(req[2].model) )
    => \A p \in Procs :
         LET key == VariantOf(req[p].model)
             q0 == QuantityOf(FindOne(res[1].before), key)
         IN  /\ QuantityOf(FindOne(stockColl), key) = AloneQuantity(q0, req[p])
             /\ q0 + SignedDelta(req[p]) >= 0
                  => /\ res[p].status = 201
                     /\ InLedger(stockColl, loc[p].movement)

\* Two overlapping requests, an entry on v1 and an exit on v9, both applied.
C3_Witness ==
    /\ AllDone /\ overlapped
    /\ IsAdd(1) /\ IsAdd(2)
    /\ req[1].model = ModelV1 /\ req[1].type = "entry"
    /\ req[2].model = ModelV9 /\ req[2].type = "exit"
    /\ res[1].status = 201 /\ res[2].status = 201
    /\ Len(Ledger(stockColl)) = 2

\* The quantity addMovement would write: the resolved variant's quantity
\* plus the quantity of an entry, minus the quantity of anything else.
WouldBe(p) ==
    QuantityOf(FindOne(res[p].before), AddModelKey(req[p].model))
      + (IF req[p].type = "entry" THEN req[p].quantity ELSE 0 - req[p].quantity)

\* C4: an addMovement that would make the resolved variant's quantity
\* negative is rejected with 400 and leaves the stock record (quantities
\* and movements) as it was before the request.
C4_RejectedLeavesStock ==
    \A p \in Procs :
        (Done(p) /\ IsAdd(p) /\ HasStock(res[p].before) /\ WouldBe(p) < 0)
        => /\ res[p].status = 400
           /\ res[p].after = res[p].before

\* An exit of more than the stock holds has been rejected.
C4_Witness ==
    \E p \in Procs :
        /\ Done(p) /\ IsAdd(p) /\ HasStock(res[p].before) /\ WouldBe(p) < 0
        /\ res[p].status = 400

\* C5: a successful addMovement appends its movement and sets the new
\* quantity in one store step: no step of an addMovement handler changes
\* the stock record in any other way than appending the movement and
\* setting the quantity together.
C5_AtomicAppendAndSet ==
    [][\A p \in Procs :
          (IsAdd(p) /\ pc'[p] # pc[p])
          => \/ stockColl' = stockColl
             \/ /\ HasStock(stockColl)
                /\ Ledger(stockColl') = Append(Ledger(stockColl), loc[p].movement)
                /\ QuantityOf(FindOne(stockColl'), loc[p].modelKey)
                     = loc[p].newQuantity
                /\ res'[p].status = 201]_vars

\* An addMovement that overlapped another request has been applied: its
\* movement is in the ledger and its quantity is the stored one.
C5_Witness ==
    \E p \in Procs :
        /\ Done(p) /\ IsAdd(p) /\ overlapped /\ res[p].status = 201
        /\ InLedger(stockColl, loc[p].movement)
        /\ QuantityOf(FindOne(stockColl), loc[p].modelKey) = loc[p].newQuantity
        /\ QuantityOf(FindOne(res[p].before), loc[p].modelKey) # loc[p].newQuantity

\* C6: after a successful addMovement of quantity q running alone the
\* resolved variant's quantity is its quantity before plus q for an entry
\* and minus q for an exit, and the other variant's quantity is unchanged.
C6_SignedDelta ==
    \A p \in Procs :
        (Done(p) /\ IsAdd(p) /\ res[p].status = 201)
        => LET b == FindOne(res[p].before)
               a == FindOne(res[p].after)
               key == AddModelKey(req[p].model)
           IN  /\ req[p].type = "entry"
                    => QuantityOf(a, key) = QuantityOf(b, key) + req[p].quantity
               /\ req[p].type = "exit"
                    => QuantityOf(a, key) = QuantityOf(b, key) - req[p].quantity
               /\ QuantityOf(a, OtherKey(key)) = QuantityOf(b, OtherKey(key))

\* A successful exit of a positive quantity.
C6_Witness ==
    \E p \in Procs :
        /\ Done(p) /\ IsAdd(p) /\ res[p].status = 201
        /\ req[p].type = "exit" /\ req[p].quantity > 0

\* C7: addMovement resolves the model by exact match against the known
\* model names: v1's quantity is modified only when model is 'ZTE 670 V1'
\* and v9's quantity only when model is 'ZTE 670 V9'.
C7_ExactModelMatch ==
    \A p \in Procs :
        (Done(p) /\ IsAdd(p) /\ HasStock(res[p].before))
        => /\ Quantities(res[p].after).v1 # Quantities(res[p].before).v1
                => req[p].model = ModelV1
           /\ Quantities(res[p].after).v9 # Quantities(res[p].before).v9
                => req[p].model = ModelV9

\* C8: when no stock record exists addMovement fails with 404 and creates
\* no stock record and no movement.
C8_NoStockNotFound ==
    \A p \in Procs :
        (Done(p) /\ IsAdd(p) /\ ~HasStock(res[p].before))
        => /\ res[p].status = 404
           /\ res[p].after = <<>>

\* An addMovement on an empty stock collection has been answered.
C8_Witness ==
    \E p \in Procs :
        /\ Done(p) /\ IsAdd(p) /\ ~HasStock(res[p].before)
        /\ res[p].status = 404

\* An entry of q answered 201, then an exit of q on the same model
\* answered 201.
RoundTrip ==
    /\ AllDone
    /\ IsAdd(1) /\ IsAdd(2)
    /\ req[1].type = "entry" /\ req[2].type = "exit"
    /\ req[1].model = req[2].model
    /\ req[1].quantity = req[2].quantity
    /\ res[1].status = 201 /\ res[2].status = 201

\* C9: a successful addMovement(entry, q) followed sequentially by
\* addMovement(exit, q) on the same variant leaves the variant's quantity
\* at its starting value.
C9_RoundTrip ==
    RoundTrip
    => QuantityOf(FindOne(res[2].after), AddModelKey(req[1].model))
         = QuantityOf(FindOne(res[1].before), AddModelKey(req[1].model))

\* A round trip of a positive quantity has completed.
C9_Witness == RoundTrip /\ req[1].quantity > 0

\* C10: deleting a movement reverses exactly its own delta: after a
\* successful addMovement, a sequential deleteMovement of the movement's
\* date restores the quantities of both variants.
C10_DeleteReverses ==
    ( /\ AllDone
      /\ IsAdd(1) /\ res[1].status = 201
      /\ req[2].op = "deleteMovement" /\ req[2].date = loc[1].stamp
      /\ res[2].status = 200 )
    => Quantities(res[2].after) = Quantities(res[1].before)

IsDeleteMovement(p) == req[p].op = "deleteMovement"

\* C11: after a successful deleteMovement(date), a second sequential
\* deleteMovement(date) is answered 404 and leaves the stock record
\* (quantities and ledger) as it was.
C11_SecondDeleteNotFound ==
    ( /\ AllDone
      /\ IsDeleteMovement(1) /\ res[1].status = 200
      /\ IsDeleteMovement(2) /\ req[2].date = req[1].date )
    => /\ res[2].status = 404
       /\ res[2].after = res[2].before

\* The same date deleted twice from a ledger in which two movements
\* carried that date.
C11_Witness ==
    /\ AllDone
    /\ IsDeleteMovement(1) /\ res[1].status = 200
    /\ IsDeleteMovement(2) /\ req[2].date = req[1].date
    /\ res[2].status = 404
    /\ Len(Ledger(res[1].before)) = 2
    /\ \A i \in 1..2 : Ledger(res[1].before)[i].date = req[1].date

\* The movement deleteMovement of p looks up in the ledger it finds, and
\* the quantity its reversal would leave: the quantity of the variant named
\* in the movement's observations, minus the quantity of an entry, plus the
\* quantity of anything else.
Looked(p) == FindMovement(Ledger(res[p].before), req[p].date)
ReversalWouldBe(p) ==
    QuantityOf(FindOne(res[p].before),
               IF Includes(Looked(p).observations, "V1") THEN "v1" ELSE "v9")
      + (IF Looked(p).type = "entry" THEN 0 - Looked(p).quantity
         ELSE Looked(p).quantity)

\* A deleteMovement whose movement exists and whose reversal would leave a
\* negative quantity.
ReversalNegative(p) ==
    /\ Done(p) /\ IsDeleteMovement(p)
    /\ HasStock(res[p].before)
    /\ HasMovement(Ledger(res[p].before), req[p].date)
    /\ ReversalWouldBe(p) < 0

\* C12: a deleteMovement whose reversal would drive the variant's quantity
\* below zero is answered 400 and leaves the stock record unchanged: the
\* movement stays in the ledger and both quantities keep their values.
C12_RejectedDeleteLeavesStock ==
    \A p \in Procs :
        ReversalNegative(p)
        => /\ res[p].status = 400
           /\ res[p].after = res[p].before

\* The deletion of an entry from a variant that holds nothing has been
\* rejected, and the entry is still in the ledger.
C12_Witness ==
    \E p \in Procs :
        /\ ReversalNegative(p)
        /\ res[p].status = 400
        /\ Looked(p).type = "entry"
        /\ InLedger(stockColl, Looked(p))

\* How many times movement m occurs in the sequence.
Occurrences(movements, m) ==
    Cardinality({i \in 1..Len(movements) : movements[i] = m})

WithoutFirst(movements, date) ==
    LET k == CHOOSE i \in 1..Len(movements) :
                 /\ movements[i].date = date
                 /\ \A j \in 1..(i - 1) : movements[j].date # date
    IN  SubSeq(movements, 1, k - 1) \o SubSeq(movements, k + 1, Len(movements))

\* C13: a successful deleteMovement(date) removes exactly one movement,
\* the first whose date is the given date; every other movement, another
\* movement of the same date included, stays in the ledger, and exactly the
\* removed movement's delta is reversed.
C13_RemovesExactlyOne ==
    \A p \in Procs :
        (Done(p) /\ IsDeleteMovement(p) /\ res[p].status = 200)
        => LET key == IF Includes(Looked(p).observations, "V1") THEN "v1" ELSE "v9"
           IN  /\ Ledger(res[p].after)
                    = WithoutFirst(Ledger(res[p].before), req[p].date)
               /\ QuantityOf(FindOne(res[p].after), key) = ReversalWouldBe(p)
               /\ QuantityOf(FindOne(res[p].after), OtherKey(key))
                    = QuantityOf(FindOne(res[p].before), OtherKey(key))

IsDeleteReport(p) == req[p].op = "deleteReport"

\* C15: deleteReport for a date with no stored report is answered 404
\* before any mutation: the stock record (quantities and ledger) and the
\* report store are unchanged.
C15_NoReportNotFound ==
    \A p \in Procs :
        (Done(p) /\ IsDeleteReport(p) /\ ~HasReport(res[p].reportsBefore, req[p].rdate))
        => /\ res[p].status = 404
           /\ res[p].after = res[p].before
           /\ res[p].reportsAfter = res[p].reportsBefore

\* A deleteReport on an empty report store, with a stock record present,
\* has been answered.
C15_Witness ==
    \E p \in Procs :
        /\ Done(p) /\ IsDeleteReport(p)
        /\ ~HasReport(res[p].reportsBefore, req[p].rdate)
        /\ HasStock(res[p].before)
        /\ res[p].status = 404

\* C16: deleteReport for an existing report when no stock record exists is
\* answered 404; the report is not deleted and no stock record is created.
C16_NoStockReportKept ==
    \A p \in Procs :
        ( /\ Done(p) /\ IsDeleteReport(p)
          /\ HasReport(res[p].reportsBefore, req[p].rdate)
          /\ ~HasStock(res[p].before) )
        => /\ res[p].status = 404
           /\ res[p].reportsAfter = res[p].reportsBefore
           /\ res[p].after = <<>>

\* A deleteReport of a stored report has been answered while the stock
\* collection was empty, and the report is still stored.
C16_Witness ==
    \E p \in Procs :
        /\ Done(p) /\ IsDeleteReport(p)
        /\ HasReport(res[p].reportsBefore, req[p].rdate)
        /\ ~HasStock(res[p].before)
        /\ res[p].status = 404
        /\ HasReport(reportsColl, req[p].rdate)

\* The sum of a sequence of integers.
RECURSIVE SumSeq(_)
SumSeq(ns) == IF ns = <<>> THEN 0 ELSE Head(ns) + SumSeq(Tail(ns))

\* The report deleteReport of p found, and the sums of tested and of v9
\* over all its morning and afternoon entries.
ReportOf(p) == res[p].reportsBefore[ReportIndex(res[p].reportsBefore, req[p].rdate)]
EntriesOf(p) == ReportOf(p).morning \o ReportOf(p).afternoon
TestedTotal(p) == SumSeq([i \in 1..Len(EntriesOf(p)) |-> EntriesOf(p)[i].tested])
V9Total(p) == SumSeq([i \in 1..Len(EntriesOf(p)) |-> EntriesOf(p)[i].v9])

\* max(0, x - y)
ClampedDifference(x, y) == IF x - y > 0 THEN x - y ELSE 0

\* C17: after a successful deleteReport running alone, v1's quantity is
\* max(0, previous v1 - sum of tested over all morning and afternoon
\* entries) and v9's quantity is max(0, previous v9 - sum of v9).
C17_ClampedSubtraction ==
    \A p \in Procs :
        (Done(p) /\ IsDeleteReport(p) /\ res[p].status = 200)
        => /\ Quantities(res[p].after).v1
                = ClampedDifference(Quantities(res[p].before).v1, TestedTotal(p))
           /\ Quantities(res[p].after).v9
                = ClampedDifference(Quantities(res[p].before).v9, V9Total(p))

\* A report whose tested total exceeds v1 and whose v9 total is within v9
\* has been deleted: v1 is clamped to zero, v9 is the exact difference.
C17_Witness ==
    \E p \in Procs :
        /\ Done(p) /\ IsDeleteReport(p) /\ res[p].status = 200
        /\ TestedTotal(p) > Quantities(res[p].before).v1
        /\ Quantities(res[p].after).v1 = 0
        /\ V9Total(p) > 0
        /\ V9Total(p) <= Quantities(res[p].before).v9
        /\ Quantities(res[p].after).v9 = Quantities(res[p].before).v9 - V9Total(p)

\* The totals of the report that are not zero, v1's first.
NonZeroTotals(p) ==
    (IF TestedTotal(p) # 0 THEN <<TestedTotal(p)>> ELSE <<>>)
    \o (IF V9Total(p) # 0 THEN <<V9Total(p)>> ELSE <<>>)

C18_AtomicAdjustAndAppend ==
    [][\A p \in Procs :
          (IsDeleteReport(p) /\ pc'[p] # pc[p])
          => \/ stockColl' = stockColl
             \/ /\ HasStock(stockColl)
                /\ Ledger(stockColl') = Ledger(stockColl) \o loc[p].movements
                /\ Quantities(stockColl').v1 = loc[p].newV1
                /\ Quantities(stockColl').v9 = loc[p].newV9]_vars

\* The store calls of deleteReport that come before the deletion of the
\* report.
BeforeReportDelete ==
    {"dr_findReport", "dr_findStock", "dr_setQuantities", "dr_pushMovements"}

\* C19: if a store call of deleteReport fails before the report-delete
\* step, the report and the stock record (quantities and ledger) are left
\* exactly as they were before the request.
C19_FailureLeavesNoPartialState ==
    \A p \in Procs :
        ( /\ Done(p) /\ IsDeleteReport(p)
          /\ res[p].status = 500
          /\ res[p].failedAt \in BeforeReportDelete )
        => /\ res[p].after = res[p].before
           /\ res[p].reportsAfter = res[p].reportsBefore

\* C21: after a successful deleteReport(date), a second sequential
\* deleteReport(date) is answered 404 and makes no further adjustment: the
\* quantities and the ledger are those the first deletion left.
C21_SecondDeleteReportNotFound ==
    ( /\ AllDone /\ ~overlapped
      /\ IsDeleteReport(1) /\ res[1].status = 200
      /\ IsDeleteReport(2) /\ req[2].rdate = req[1].rdate )
    => /\ res[2].status = 404
       /\ res[2].after = res[1].after

\* No two reports of the collection have the same header.date.
UniqueDates(coll) ==
    \A i, j \in 1..Len(coll) : coll[i].header.date = coll[j].header.date => i = j

\* The reports collection the behaviour started from.
FirstReports == IF pc[1] = "idle" THEN reportsColl ELSE res[1].reportsBefore

\* C22: the report date is a unique key: in every state reachable by any
\* interleaving of createReport, updateReport and deleteReport requests
\* from a store with at most one report per date, the store holds at most
\* one report per header.date.
C22_ReportDateUnique == UniqueDates(FirstReports) => UniqueDates(reportsColl)

IsReportWrite(p) == req[p].op \in {"createReport", "updateReport"}

\* C26: createReport and updateReport leave the stock record unchanged:
\* the stock collection is the same before and after a request that ran
\* alone, whatever the report's contents.
C26_ReportWritesLeaveStock ==
    \A p \in Procs :
        (Done(p) /\ IsReportWrite(p) /\ ~overlapped)
        => res[p].after = res[p].before

\* A report with entries has been created and then updated while a stock
\* record with a positive quantity was stored, and both changed the report
\* collection.
C26_Witness ==
    /\ AllDone /\ ~overlapped
    /\ req[1].op = "createReport" /\ res[1].status = 201
    /\ req[2].op = "updateReport" /\ res[2].status = 200
    /\ res[1].reportsAfter # res[1].reportsBefore
    /\ res[2].reportsAfter # res[2].reportsBefore
    /\ HasStock(stockColl) /\ Quantities(stockColl).v1 > 0

\* C23: exactly one stock record exists per deployment: in every state
\* reachable by any interleaving of get-stock requests (concurrent first
\* reads of an empty store included) and replace-stock requests, the stock
\* collection holds at most one document.
C23_SingletonStock == Len(stockColl) <= 1

IsGetStock(p) == req[p].op \in {"getStock", "getApiStock"}

\* C24: get stock returns the singleton record and, when no record exists,
\* creates and returns a seed whose v1 and v9 quantities are 0 and whose
\* movements list is empty; after any get stock request a stock record
\* exists.
C24_GetStockSeeds ==
    \A p \in Procs :
        (Done(p) /\ IsGetStock(p) /\ ~overlapped)
        => /\ res[p].status = 200
           /\ HasStock(res[p].after)
           /\ res[p].body = <<FindOne(res[p].after)>>
           /\ HasStock(res[p].before) => res[p].after = res[p].before
           /\ ~HasStock(res[p].before)
                => /\ Quantities(res[p].after) = [exists |-> TRUE, v1 |-> 0, v9 |-> 0]
                   /\ Ledger(res[p].after) = <<>>

IsUpdateStock(p) == req[p].op = "updateStock"

\* C25: replace stock with a body lacking items is answered 400 and leaves
\* the stock record unchanged; with items present it overwrites the items
\* map and leaves the movements list unchanged.
C25_ReplaceStockValidates ==
    \A p \in Procs :
        (Done(p) /\ IsUpdateStock(p) /\ ~overlapped)
        => /\ ~req[p].body.hasItems
                => /\ res[p].status = 400
                   /\ res[p].after = res[p].before
           /\ req[p].body.hasItems
                => /\ res[p].status = 200
                   /\ Quantities(res[p].after)
                        = [exists |-> TRUE, v1 |-> req[p].body.v1, v9 |-> req[p].body.v9]
                   /\ Ledger(res[p].after) = Ledger(res[p].before)

\* C29: a movement is immutable once created: no operation changes the
\* fields of a movement already in the ledger, and a movement leaves the
\* ledger only through deleteMovement: after a request other than
\* deleteMovement that ran alone, the ledger begins with the movements it
\* held before, unchanged and in their order.
C29_MovementsImmutable ==
    \A p \in Procs :
        (Done(p) /\ ~IsDeleteMovement(p) /\ ~overlapped)
        => /\ Len(Ledger(res[p].after)) >= Len(Ledger(res[p].before))
           /\ SubSeq(Ledger(res[p].after), 1, Len(Ledger(res[p].before)))
                = Ledger(res[p].before)

\* C27: an addMovement request whose body has no type is answered 400 and
\* leaves the stock record as it was: no movement appended, no quantity
\* written.
IsAddMovement(p) == Done(p) /\ req[p].op = "addMovement"

C27_InvalidBodyRejected ==
    \A p \in Procs :
        (IsAddMovement(p) /\ req[p].type = NoType /\ HasStock(res[p].before)) =>
            /\ res[p].status = 400
            /\ res[p].after = res[p].before

\* C28: every movement in the ledger has a positive quantity.
C28_PositiveQuantities ==
    \A i \in 1..Len(Ledger(stockColl)) : Ledger(stockColl)[i].quantity > 0

\* C30: starting from the zero-quantity record, once every request received
\* so far (addMovement or deleteReport, served one after the other) has
\* been answered with success, the quantity of each variant is the sum of
\* the quantities of its entries in the ledger minus the sum of the
\* quantities of its exits.
\* The variant a movement belongs to: the model of an addMovement body, the
\* model named by the observations of a movement pushed by deleteReport.
MovementVariant(m) ==
    IF m.model # NoModel THEN AddModelKey(m.model)
    ELSE IF Includes(m.observations, ModelV1) THEN "v1" ELSE "v9"

\* The quantity of movement m signed for variant k: entries count up, exits
\* count down, anything else does not count.
SignedQuantity(m, k) ==
    IF MovementVariant(m) # k THEN 0
    ELSE IF m.type = "entry" THEN m.quantity
    ELSE IF m.type = "exit" THEN 0 - m.quantity
    ELSE 0

LedgerBalance(movements, k) ==
    SumSeq([i \in 1..Len(movements) |-> SignedQuantity(movements[i], k)])

Succeeded(p) ==
    /\ Done(p)
    /\ req[p].op \in {"addMovement", "deleteReport"}
    /\ res[p].status \in {200, 201}

C30_LedgerReconciles ==
    (/\ Succeeded(1)
     /\ res[1].before = <<StockDoc(0, 0)>>
     /\ pc[2] = "idle" \/ Succeeded(2)) =>
        \A k \in {"v1", "v9"} :
            QuantityOf(FindOne(stockColl), k) = LedgerBalance(Ledger(stockColl), k)

\* C31: a deleteReport request goes through its store calls in the order
\* find report, find stock, set quantities, push movements, delete report,
\* or ends with 404 at one of the two finds; the push is left out only when
\* there is no movement to push.  The reports collection changes only in
\* the delete step, which a request reaches after its set and its push.
DeleteReportStep(p) ==
    \/ /\ pc[p] = "dr_findReport"
       /\ \/ pc'[p] = "dr_findStock"
          \/ pc'[p] = "done" /\ res'[p].status = 404
    \/ /\ pc[p] = "dr_findStock"
       /\ \/ pc'[p] = "dr_setQuantities"
          \/ pc'[p] = "done" /\ res'[p].status = 404
    \/ /\ pc[p] = "dr_setQuantities"
       /\ \/ pc'[p] = "dr_pushMovements"
          \/ pc'[p] = "dr_deleteOne" /\ loc[p].movements = <<>>
    \/ /\ pc[p] = "dr_pushMovements"
       /\ pc'[p] = "dr_deleteOne"
    \/ /\ pc[p] = "dr_deleteOne"
       /\ pc'[p] = "done" /\ res'[p].status = 200

C31_DeleteReportOrder ==
    [][/\ \A p \in Procs :
            (req[p].op = "deleteReport" /\ pc'[p] # pc[p]) => DeleteReportStep(p)
       /\ reportsColl' # reportsColl =>
            \E p \in Procs : pc[p] = "dr_deleteOne" /\ pc'[p] = "done"]_vars

C31_Witness ==
    \E p \in Procs :
        /\ Done(p) /\ IsDeleteReport(p) /\ res[p].status = 200
        /\ loc[p].movements # <<>>
        /\ HasReport(res[p].reportsBefore, req[p].rdate)
        /\ ~HasReport(reportsColl, req[p].rdate)

\* C32: after a deleteReport whose stock updates were applied and whose
\* deleteOne failed, a rerun for the same date changes the quantities only
\* if the report is still stored and has a nonzero total; with the report
\* gone or both totals zero the rerun leaves the quantities as they were.
DeleteFailed(p) ==
    Done(p) /\ IsDeleteReport(p) /\ res[p].failedAt = "dr_deleteOne"

Rerun(p, q) ==
    /\ DeleteFailed(p)
    /\ Done(q) /\ IsDeleteReport(q) /\ req[q].rdate = req[p].rdate

C32_RerunDoubleSubtracts ==
    Rerun(1, 2) =>
        (Quantities(res[2].after) # Quantities(res[2].before) =>
            /\ HasReport(res[2].reportsBefore, req[2].rdate)
            /\ NonZeroTotals(2) # <<>>)

\* The rerun subtracted the total a second time.
C32_Witness ==
    /\ Rerun(1, 2)
    /\ res[2].status = 200
    /\ TestedTotal(2) = 1
    /\ Quantities(res[1].before).v1 = 2
    /\ Quantities(res[2].before).v1 = 1
    /\ Quantities(res[2].after).v1 = 0

\* C33: a call of connectToDatabase makes at most MAX_RETRIES connect
\* attempts; a call that took the connecting branch ends either by
\* returning a client on which an attempt succeeded, or, all its attempts
\* having failed, by throwing with client null and isConnecting false.
Ended(c) == call[c].pc \in {"returned", "threw"}

C33_BoundedRetries ==
    \A c \in Callers :
        /\ call[c].attempts <= MAX_RETRIES
        /\ (call[c].entered /\ call[c].pc = "returned") => call[c].returnedReady
        /\ (call[c].entered /\ call[c].pc = "threw") =>
              /\ call[c].clientAfter = Null
              /\ ~call[c].isConnectingAfter

\* C36: a call of connectToDatabase returns a client only if connect and
\* ping had succeeded on that client when it was returned.
C36_ReturnsConnectedClient ==
    \A c \in Callers : call[c].pc = "returned" => call[c].returnedReady

\* C37: retryCount is 0 whenever no call is connecting, and a call that
\* takes the connecting branch makes at least one connect attempt.
C37_FreshRetryBudget ==
    /\ ~isConnecting => retryCount = 0
    /\ \A c \in Callers : (call[c].entered /\ Ended(c)) => call[c].attempts >= 1

\* C34: when two deleteReport requests for the same date have been served,
\* in whatever interleaving, the totals of the report were subtracted from
\* the stock at most once and at most one set of compensating movements
\* was appended to the ledger.
BothDeletedReport ==
    /\ AllDone
    /\ IsDeleteReport(1) /\ IsDeleteReport(2)
    /\ req[1].rdate = req[2].rdate
    /\ HasReport(res[1].reportsBefore, req[1].rdate)
    /\ HasStock(res[1].before)

C34_ReportSubtractedOnce ==
    BothDeletedReport =>
        /\ Quantities(stockColl).v1
             >= ClampedDifference(Quantities(res[1].before).v1, TestedTotal(1))
        /\ Quantities(stockColl).v9
             >= ClampedDifference(Quantities(res[1].before).v9, V9Total(1))
        /\ Len(Ledger(stockColl))
             <= Len(Ledger(res[1].before)) + Len(NonZeroTotals(1))

\* C35: when two deleteMovement requests for the same date have been
\* served, in whatever interleaving, with the movement in the ledger and
\* its reversal not negative, the quantity of the movement's variant is the
\* initial quantity with one reversal applied, and the other variant's
\* quantity is the initial one.
BothDeletedMovement ==
    /\ AllDone
    /\ IsDeleteMovement(1) /\ IsDeleteMovement(2)
    /\ req[1].date = req[2].date
    /\ HasStock(res[1].before)
    /\ HasMovement(Ledger(res[1].before), req[1].date)
    /\ ReversalWouldBe(1) >= 0

C35_MovementReversedOnce ==
    BothDeletedMovement =>
        \A k \in {"v1", "v9"} :
            QuantityOf(FindOne(stockColl), k) =
                IF k = DeleteModelKey(Looked(1)) THEN ReversalWouldBe(1)
                ELSE QuantityOf(FindOne(res[1].before), k)

\* Both requests found the movement and both wrote the stock record.
C35_Witness ==
    /\ BothDeletedMovement
    /\ overlapped
    /\ res[1].status = 200 /\ res[2].status = 200
    /\ Quantities(stockColl) # Quantities(res[1].before)

\* C38: an addMovement whose type is not 'entry' is treated as an exit:
\* when the resolved variant's quantity minus the movement's quantity is
\* negative the request is answered 400 and the record is unchanged;
\* otherwise it is answered 201, the variant's quantity is lowered by the
\* movement's quantity and the other variant's quantity is unchanged.
C38_NonEntryIsExit ==
    \A p \in Procs :
        (IsAddMovement(p) /\ req[p].type # "entry" /\ HasStock(res[p].before)) =>
            LET b == FindOne(res[p].before)
                key == AddModelKey(req[p].model)
                left == QuantityOf(b, key) - req[p].quantity
            IN  IF left < 0
                THEN /\ res[p].status = 400
                     /\ res[p].after = res[p].before
                ELSE /\ res[p].status = 201
                     /\ QuantityOf(FindOne(res[p].after), key) = left
                     /\ QuantityOf(FindOne(res[p].after), OtherKey(key))
                          = QuantityOf(b, OtherKey(key))

\* An adjustment took one unit off, and a movement of an unknown type was
\* then rejected for want of stock.
C38_Witness ==
    /\ IsAddMovement(1) /\ req[1].type = "adjustment" /\ req[1].quantity = 1
    /\ res[1].status = 201
    /\ IsAddMovement(2) /\ req[2].type = "transfer" /\ req[2].quantity = 1
    /\ req[2].model = req[1].model
    /\ res[2].status = 400

====
